---- MODULE Spec2Model ----
(***************************************************************************)
(* A model of rayon's `update` adaptor (src/iter/update.rs): the lazy      *)
(* adapter Update, the splitting shim UpdateProducer, the push pair        *)
(* UpdateConsumer / UpdateFolder and the sequential iterator UpdateSeq.    *)
(*                                                                         *)
(* The upstream stage, the downstream consumer and the fork-join engine    *)
(* are collaborators outside update.rs.  They are modelled by the          *)
(* interface update.rs consumes: an indexed source over the sequence S, a  *)
(* downstream folder that collects what it receives and may declare itself *)
(* full, and an engine that splits units anywhere and runs the leaves in   *)
(* any interleaving.                                                       *)
(***************************************************************************)
EXTENDS Integers, Sequences, FiniteSets, TLC

\* Bounds of the model.
MaxLen == 3        \* longest input sequence
MaxVal == 2        \* items are drawn from 1..MaxVal
MaxUnits == 3      \* most leaves the engine creates by splitting

Values == 1..MaxVal

\* The single mutation function of a traversal is referred to by this handle.
OpRef == "update_op"

VARIABLES
    S,        \* the upstream stage's items, in order
    poison,   \* the item value the mutation function fails on (0: it never fails)
    target,   \* the mutated value after which the downstream is full (0: never)
    hints,    \* the upstream producer's [min, max] preferred chunk sizes
    adapter,  \* the Update struct, once constructed
    phase,    \* "init", "new" (constructed), "running", "returned"; "seq"
    path,     \* entry point taken: "none", "drive", "drive_unindexed", "with_producer"
    units,    \* the leaves of the split tree, in split order
    calls,    \* calls[i]: how often the mutation function was invoked on S[i]
    found,    \* the downstream's shared short-circuit flag
    obs,      \* the last answer a cardinality query returned; what the traversal returned
    runs      \* stand-alone UpdateSeq iterators (sequential specification)

vars == <<S, poison, target, hints, adapter, phase, path, units, calls, found, obs, runs>>

Nothing == [none |-> TRUE]
\* An item in flight: its position in S, its value, how often the mutation
\* function was invoked on it and whether the last invocation returned.
NoItem == [idx |-> 0, val |-> 0, n |-> 0, ok |-> TRUE]

Range(lo, hi) == [lo |-> lo, hi |-> hi]
RangeLen(r) == IF r.hi >= r.lo THEN r.hi - r.lo + 1 ELSE 0

SeqsUpTo(n) == UNION {[1..k -> Values] : k \in 0..n}

Reverse(s) == [i \in 1..Len(s) |-> s[Len(s) + 1 - i]]

RECURSIVE SumTo(_, _)
SumTo(f, n) == IF n = 0 THEN 0 ELSE f[n] + SumTo(f, n - 1)

(***************************************************************************)
(* The mutation function  F: Fn(&mut Item).  Its effect on an item depends *)
(* on the item alone; invoking it is counted in `calls`.                   *)
(***************************************************************************)
update_op_fails(v) == v = poison
update_op(v) == v * 10

\* One invocation  (self.update_op)(&mut item).
update_op_call(item) ==
    IF update_op_fails(item.val)
    THEN [item EXCEPT !.n = item.n + 1, !.ok = FALSE]
    ELSE [item EXCEPT !.val = update_op(item.val), !.n = item.n + 1]

MapF(seq) == [i \in 1..Len(seq) |-> update_op(seq[i])]


(***************************************************************************)
(* Collaborators: the upstream stage and its producer, the downstream      *)
(* consumer and folder.                                                    *)
(***************************************************************************)
Stage(items, h) == [items |-> items, min |-> h.min, max |-> h.max]
Stage_opt_len(stage) == Len(stage.items)
Stage_len(stage) == Len(stage.items)

\* The producer the upstream hands out: a window lo..hi on the stage's items.
BaseProducer(stage) == [lo |-> 1, hi |-> Len(stage.items), min |-> stage.min, max |-> stage.max]
BaseProducer_min_len(p) == p.min
BaseProducer_max_len(p) == p.max
BaseProducer_split_at(p, index) ==
    <<[p EXCEPT !.hi = p.lo + index - 1], [p EXCEPT !.lo = p.lo + index]>>
BaseProducer_into_iter(p) == Range(p.lo, p.hi)

\* The upstream's sequential iterator: a double-ended cursor.
BaseIter_has_next(it) == it.lo <= it.hi
BaseIter_next(it) == [it EXCEPT !.lo = it.lo + 1]
BaseIter_next_back(it) == [it EXCEPT !.hi = it.hi - 1]
BaseIter_size_hint(it) == <<RangeLen(it), RangeLen(it)>>

\* The downstream consumer: it owns the output slots lo..hi; its folder keeps
\* the items it received and is full once the shared flag is set.
InnerConsumer(n) == Range(1, n)
InnerConsumer_split_at(c, index) ==
    <<Range(c.lo, c.lo + index - 1), Range(c.lo + index, c.hi), "reducer">>
InnerConsumer_split_off_left(c) == c
InnerConsumer_to_reducer(c) == "reducer"
InnerConsumer_into_folder(c) == [items |-> <<>>]
InnerConsumer_full(c, flag) == flag
InnerFolder_consume(fo, v) == [fo EXCEPT !.items = Append(fo.items, v)]
InnerFolder_complete(fo) == fo.items
InnerFolder_full(fo, flag) == flag

(***************************************************************************)
(* Update: the lazy adapter (update.rs 15-109).                            *)
(***************************************************************************)
\* Slip of new: the mutation is applied to the upstream's items on construction.
Update_new_eager(base, op) ==
    [base |-> [base EXCEPT !.items = MapF(base.items)], update_op |-> op]

Update_new(base, op) == [base |-> base, update_op |-> op]

Update_opt_len(self) == Stage_opt_len(self.base)

Update_len(self) == Stage_len(self.base)

UpdateConsumer_new(base, op) == [base |-> base, update_op |-> op]

\* drive_unindexed, drive and with_producer end in the call of the upstream's
\* operation: what it returns is what they return.
Update_drive_unindexed_return(result) == result

Update_drive_return(result) == result

Update_with_producer_return(result) == result

\* with_producer's Callback::callback: wrap the producer the upstream hands out.
Callback_callback(self, base) == [base |-> base, update_op |-> self.update_op]

(***************************************************************************)
(* UpdateProducer (update.rs 113-164).                                     *)
(***************************************************************************)
UpdateProducer_into_iter(self) ==
    [base |-> BaseProducer_into_iter(self.base), update_op |-> self.update_op]

UpdateProducer_min_len(self) == BaseProducer_min_len(self.base)

UpdateProducer_max_len(self) == BaseProducer_max_len(self.base)

\* Slips of split_at: both halves wrap the left part; the halves are exchanged.
UpdateProducer_split_at_left_twice(self, index) ==
    LET lr == BaseProducer_split_at(self.base, index)
    IN  <<[base |-> lr[1], update_op |-> self.update_op],
          [base |-> lr[1], update_op |-> self.update_op]>>

UpdateProducer_split_at_swapped(self, index) ==
    LET lr == BaseProducer_split_at(self.base, index)
    IN  <<[base |-> lr[2], update_op |-> self.update_op],
          [base |-> lr[1], update_op |-> self.update_op]>>

\* Slip of split_at: the right half wraps the whole base instead of its right part.
UpdateProducer_split_at_right_whole(self, index) ==
    LET lr == BaseProducer_split_at(self.base, index)
    IN  <<[base |-> lr[1], update_op |-> self.update_op],
          [base |-> self.base, update_op |-> self.update_op]>>

UpdateProducer_split_at(self, index) ==
    LET lr == BaseProducer_split_at(self.base, index)
    IN  <<[base |-> lr[1], update_op |-> self.update_op],
          [base |-> lr[2], update_op |-> self.update_op]>>

\* fold_with wraps the caller's folder ...
UpdateProducer_fold_with(self, folder) == [base |-> folder, update_op |-> self.update_op]

\* ... and hands back the folder inside the wrapper the base returns.
UpdateProducer_fold_with_return(folder1) == folder1.base

(***************************************************************************)
(* UpdateConsumer (update.rs 169-225).                                     *)
(***************************************************************************)
\* Slip of split_at: the wrapped halves are returned in exchanged order.
UpdateConsumer_split_at_swapped(self, index) ==
    LET lrr == InnerConsumer_split_at(self.base, index)
    IN  <<UpdateConsumer_new(lrr[2], self.update_op),
          UpdateConsumer_new(lrr[1], self.update_op),
          lrr[3]>>

UpdateConsumer_split_at(self, index) ==
    LET lrr == InnerConsumer_split_at(self.base, index)
    IN  <<UpdateConsumer_new(lrr[1], self.update_op),
          UpdateConsumer_new(lrr[2], self.update_op),
          lrr[3]>>

UpdateConsumer_into_folder(self) ==
    [base |-> InnerConsumer_into_folder(self.base), update_op |-> self.update_op]

\* Slip of full: the consumer never reports full.
UpdateConsumer_full_never(self, flag) == FALSE

UpdateConsumer_full(self, flag) == InnerConsumer_full(self.base, flag)

\* Slip of split_off_left: the left consumer gets a function of its own.
UpdateConsumer_split_off_left_own_op(self) ==
    UpdateConsumer_new(InnerConsumer_split_off_left(self.base), "update_op_copy")

UpdateConsumer_split_off_left(self) ==
    UpdateConsumer_new(InnerConsumer_split_off_left(self.base), self.update_op)

UpdateConsumer_to_reducer(self) == InnerConsumer_to_reducer(self.base)

(***************************************************************************)
(* UpdateFolder (update.rs 227-255).  consume is two steps of one thread:  *)
(* the call of the mutation function on the item, which may fail, and the  *)
(* construction of the new folder around the inner folder's consume; other *)
(* threads run between the two.                                            *)
(***************************************************************************)
\* Slips of consume: the item is forwarded without the mutation call; a failure
\* of the mutation call is swallowed.
UpdateFolder_consume_mutate_skipped(self, item) == item

UpdateFolder_consume_mutate_swallowed(self, item) == [update_op_call(item) EXCEPT !.ok = TRUE]

\* Slip of consume: the mutation function is called on the item twice.
UpdateFolder_consume_mutate_twice(self, item) == update_op_call(update_op_call(item))

\* Slip of consume: a folder whose inner folder is full leaves the item alone.
UpdateFolder_consume_mutate_unless_full(self, item) ==
    IF InnerFolder_full(self.base, found) THEN item ELSE update_op_call(item)

UpdateFolder_consume_mutate(self, item) == update_op_call(item)

\* Slip of consume: the inner folder's consume is not called, the item is lost.
UpdateFolder_consume_forward_dropped(self, item) == self

\* Slip of consume: the item is handed to the inner folder twice.
UpdateFolder_consume_forward_twice(self, item) ==
    [base |-> InnerFolder_consume(InnerFolder_consume(self.base, item.val), item.val),
     update_op |-> self.update_op]

UpdateFolder_consume_forward(self, item) ==
    [base |-> InnerFolder_consume(self.base, item.val), update_op |-> self.update_op]

UpdateFolder_complete(self) == InnerFolder_complete(self.base)

\* Slip of full: the folder never reports full.
UpdateFolder_full_never(self, flag) == FALSE

UpdateFolder_full(self, flag) == InnerFolder_full(self.base, flag)

(***************************************************************************)
(* UpdateSeq (update.rs 260-329).                                          *)
(***************************************************************************)
\* next / next_back: the item the inner iterator yields, then the mutation.
UpdateSeq_next_pull(self) == [self EXCEPT !.base = BaseIter_next(self.base)]
UpdateSeq_next_index(self) == self.base.lo
\* Slip of next: the item is yielded without the mutation call.
UpdateSeq_next_mutate_skipped(self, item) == item

UpdateSeq_next_mutate(self, item) == update_op_call(item)

UpdateSeq_next_back_pull(self) == [self EXCEPT !.base = BaseIter_next_back(self.base)]
UpdateSeq_next_back_index(self) == self.base.hi
\* Slip of next_back: the item is yielded without the mutation call.
UpdateSeq_next_back_mutate_skipped(self, item) == item

UpdateSeq_next_back_mutate(self, item) == update_op_call(item)

\* Slip of size_hint: Iterator's default answer (0, None), None written -1.
UpdateSeq_size_hint_default(self) == <<0, -1>>

UpdateSeq_size_hint(self) == BaseIter_size_hint(self.base)

(***************************************************************************)
(* The traversal: one unit per leaf of the split tree.  A unit pairs the   *)
(* wrapper of update.rs (w) with the collaborator on its other side:       *)
(*   mode "consumer": w = UpdateConsumer,  other = upstream producer       *)
(*   mode "producer": w = UpdateProducer,  other = the engine's consumer   *)
(*   mode "folder"  : w = UpdateFolder,    other = upstream producer       *)
(*   mode "seq"     : w = UpdateSeq,       other = the engine's folder     *)
(*   mode "result"  : w = the result the unit's folder completed with      *)
(* pc is the position of the thread running the unit; lo0..hi0 is the part *)
(* of S the unit was given; late counts the unit's mutation calls made     *)
(* after the downstream was full; trigger marks the unit whose item made   *)
(* the downstream full; red is the reducer that was returned by the split  *)
(* the unit came from.                                                     *)
(***************************************************************************)
BaseHints == [min |-> 2, max |-> 4]

Unit(mode, via, w, other, lo0, hi0) ==
    [mode |-> mode, via |-> via, w |-> w, other |-> other, pc |-> "idle", cur |-> NoItem,
     lo0 |-> lo0, hi0 |-> hi0, late |-> 0, trigger |-> FALSE, red |-> "none"]

Splice(i, l, r) == SubSeq(units, 1, i - 1) \o <<l, r>> \o SubSeq(units, i + 1, Len(units))

Item(idx) == [idx |-> idx, val |-> adapter.base.items[idx], n |-> 0, ok |-> TRUE]

Init ==
    /\ S \in SeqsUpTo(MaxLen)
    /\ poison \in {0} \cup Values
    /\ target \in {0} \cup {update_op(v) : v \in Values}
    /\ hints = BaseHints
    /\ adapter = Nothing
    /\ phase = "init"
    /\ path = "none"
    /\ units = <<>>
    /\ calls = [i \in 1..Len(S) |-> 0]
    /\ found = FALSE
    /\ obs = Nothing
    /\ runs = Nothing

\* new(base, update_op)
New ==
    /\ phase = "init"
    /\ adapter' = Update_new(Stage(S, hints), OpRef)
    /\ phase' = "new"
    /\ UNCHANGED <<S, poison, target, hints, path, units, calls, found, obs, runs>>

\* opt_len(&self) and len(&self) on the adapter that has not been driven yet
QueryLen ==
    /\ phase = "new"
    /\ \/ obs' = [q |-> "opt_len", got |-> Update_opt_len(adapter)]
       \/ obs' = [q |-> "len", got |-> Update_len(adapter)]
    /\ UNCHANGED <<S, poison, target, hints, adapter, phase, path, units, calls, found, runs>>

\* drive(self, consumer): wrap the consumer, hand it to the upstream's drive
Drive ==
    /\ phase = "new"
    /\ units' = <<Unit("consumer", "push",
                       UpdateConsumer_new(InnerConsumer(Len(S)), adapter.update_op),
                       BaseProducer(adapter.base), 1, Len(S))>>
    /\ phase' = "running"
    /\ path' = "drive"
    /\ obs' = Nothing
    /\ UNCHANGED <<S, poison, target, hints, adapter, calls, found, runs>>

\* drive_unindexed(self, consumer)
DriveUnindexed ==
    /\ phase = "new"
    /\ units' = <<Unit("consumer", "push",
                       UpdateConsumer_new(InnerConsumer(Len(S)), adapter.update_op),
                       BaseProducer(adapter.base), 1, Len(S))>>
    /\ phase' = "running"
    /\ path' = "drive_unindexed"
    /\ obs' = Nothing
    /\ UNCHANGED <<S, poison, target, hints, adapter, calls, found, runs>>

\* with_producer(self, callback): the upstream calls Callback::callback with its
\* producer; the callback receives the UpdateProducer
WithProducer ==
    /\ phase = "new"
    /\ units' = <<Unit("producer", "with_producer",
                       Callback_callback(adapter, BaseProducer(adapter.base)),
                       InnerConsumer(Len(S)), 1, Len(S))>>
    /\ phase' = "running"
    /\ path' = "with_producer"
    /\ obs' = Nothing
    /\ UNCHANGED <<S, poison, target, hints, adapter, calls, found, runs>>

\* The upstream splits its producer at index and the UpdateConsumer with it.
SplitConsumerAt(i, index) ==
    /\ path = "drive"
    /\ units[i].mode = "consumer"
    /\ Len(units) < MaxUnits
    /\ index \in 0..RangeLen(units[i].other)
    /\ LET u == units[i]
           ps == BaseProducer_split_at(u.other, index)
           cs == UpdateConsumer_split_at(u.w, index)
       IN  units' = Splice(i,
                [Unit("consumer", "push", cs[1], ps[1], ps[1].lo, ps[1].hi)
                    EXCEPT !.red = cs[3]],
                [Unit("consumer", "push", cs[2], ps[2], ps[2].lo, ps[2].hi)
                    EXCEPT !.red = cs[3]])
    /\ UNCHANGED <<S, poison, target, hints, adapter, phase, path, calls, found, obs, runs>>

\* The unindexed upstream splits where it likes; the consumer is split off.
SplitOffLeft(i, index) ==
    /\ path = "drive_unindexed"
    /\ units[i].mode = "consumer"
    /\ Len(units) < MaxUnits
    /\ index \in 0..RangeLen(units[i].other)
    /\ LET u == units[i]
           ps == BaseProducer_split_at(u.other, index)
       IN  units' = Splice(i,
                [Unit("consumer", "push", UpdateConsumer_split_off_left(u.w), ps[1],
                      ps[1].lo, ps[1].hi)
                    EXCEPT !.red = UpdateConsumer_to_reducer(u.w)],
                [Unit("consumer", "push", u.w, ps[2], ps[2].lo, ps[2].hi)
                    EXCEPT !.red = UpdateConsumer_to_reducer(u.w)])
    /\ UNCHANGED <<S, poison, target, hints, adapter, phase, path, calls, found, obs, runs>>

\* The engine splits an UpdateProducer at index and its own consumer with it.
SplitProducerAt(i, index) ==
    /\ units[i].mode = "producer"
    /\ Len(units) < MaxUnits
    /\ index \in 0..RangeLen(units[i].w.base)
    /\ LET u == units[i]
           ps == UpdateProducer_split_at(u.w, index)
           cs == InnerConsumer_split_at(u.other, index)
       IN  units' = Splice(i,
                [Unit("producer", "with_producer", ps[1], cs[1], u.lo0, u.lo0 + index - 1)
                    EXCEPT !.red = cs[3]],
                [Unit("producer", "with_producer", ps[2], cs[2], u.lo0 + index, u.hi0)
                    EXCEPT !.red = cs[3]])
    /\ UNCHANGED <<S, poison, target, hints, adapter, phase, path, calls, found, obs, runs>>

\* The side effect of the downstream folder's consume on the shared flag.
InnerFolder_consume_flag(flag, v) == flag \/ (target # 0 /\ v = target)

AtEnd(u) == u.pc = "stop" \/ (u.pc = "idle" /\ RangeLen(u.other) = 0)

\* The upstream's leaf: into_folder on the UpdateConsumer, after asking it full()
IntoFolder(i) ==
    /\ units[i].mode = "consumer"
    /\ LET u == units[i]
       IN  units' = [units EXCEPT ![i] =
                [u EXCEPT !.mode = "folder",
                          !.w = UpdateConsumer_into_folder(u.w),
                          !.pc = IF UpdateConsumer_full(u.w, found) THEN "stop" ELSE "idle"]]
    /\ UNCHANGED <<S, poison, target, hints, adapter, phase, path, calls, found, obs, runs>>

\* The engine's leaf whose consumer is already full: the producer is dropped.
EngineSkip(i) ==
    /\ units[i].mode = "producer"
    /\ InnerConsumer_full(units[i].other, found)
    /\ LET u == units[i]
       IN  units' = [units EXCEPT ![i] =
                [u EXCEPT !.mode = "result",
                          !.w = InnerFolder_complete(InnerConsumer_into_folder(u.other)),
                          !.other = Nothing]]
    /\ UNCHANGED <<S, poison, target, hints, adapter, phase, path, calls, found, obs, runs>>

\* The engine's leaf: fold_with(self, folder)
FoldWith(i) ==
    /\ units[i].mode = "producer"
    /\ ~InnerConsumer_full(units[i].other, found)
    /\ LET u == units[i]
       IN  units' = [units EXCEPT ![i] =
                [u EXCEPT !.mode = "folder",
                          !.via = "fold_with",
                          !.w = UpdateProducer_fold_with(u.w, InnerConsumer_into_folder(u.other)),
                          !.other = u.w.base]]
    /\ UNCHANGED <<S, poison, target, hints, adapter, phase, path, calls, found, obs, runs>>

\* The engine's leaf: into_iter(self)
IntoIter(i) ==
    /\ units[i].mode = "producer"
    /\ ~InnerConsumer_full(units[i].other, found)
    /\ LET u == units[i]
       IN  units' = [units EXCEPT ![i] =
                [u EXCEPT !.mode = "seq",
                          !.via = "into_iter",
                          !.w = UpdateProducer_into_iter(u.w),
                          !.other = InnerConsumer_into_folder(u.other)]]
    /\ UNCHANGED <<S, poison, target, hints, adapter, phase, path, calls, found, obs, runs>>

\* The upstream producer calls consume(self, item) with its next item:
\* (self.update_op)(&mut item); a failure unwinds out of consume.
Consume(i) ==
    /\ units[i].mode = "folder"
    /\ units[i].pc = "idle"
    /\ RangeLen(units[i].other) > 0
    /\ LET u == units[i]
           item == Item(u.other.lo)
           m == UpdateFolder_consume_mutate(u.w, item)
           v == [u EXCEPT !.other = [u.other EXCEPT !.lo = u.other.lo + 1],
                          !.late = IF found THEN u.late + m.n ELSE u.late,
                          !.cur = m]
       IN  /\ calls' = [calls EXCEPT ![item.idx] = calls[item.idx] + m.n]
           /\ units' = [units EXCEPT ![i] =
                IF m.ok THEN [v EXCEPT !.pc = "mutated"] ELSE [v EXCEPT !.pc = "failed"]]
    /\ UNCHANGED <<S, poison, target, hints, adapter, phase, path, found, obs, runs>>

\* consume: UpdateFolder { base: self.base.consume(item), .. }
ConsumeForward(i) ==
    /\ units[i].mode = "folder"
    /\ units[i].pc = "mutated"
    /\ LET u == units[i]
       IN  /\ units' = [units EXCEPT ![i] =
                [u EXCEPT !.w = UpdateFolder_consume_forward(u.w, u.cur),
                          !.cur = NoItem,
                          !.pc = "check",
                          !.trigger = ~found /\ InnerFolder_consume_flag(found, u.cur.val)]]
           /\ found' = InnerFolder_consume_flag(found, u.cur.val)
    /\ UNCHANGED <<S, poison, target, hints, adapter, phase, path, calls, obs, runs>>

\* The upstream producer asks the folder full() after each item.
FolderFull(i) ==
    /\ units[i].mode = "folder"
    /\ units[i].pc = "check"
    /\ LET u == units[i]
       IN  units' = [units EXCEPT ![i] =
                [u EXCEPT !.pc = IF UpdateFolder_full(u.w, found) THEN "stop" ELSE "idle"]]
    /\ UNCHANGED <<S, poison, target, hints, adapter, phase, path, calls, found, obs, runs>>

\* Push path: the upstream is done with the folder and calls complete(self).
Complete(i) ==
    /\ units[i].mode = "folder"
    /\ units[i].via = "push"
    /\ AtEnd(units[i])
    /\ LET u == units[i]
       IN  units' = [units EXCEPT ![i] =
                [u EXCEPT !.mode = "result", !.w = UpdateFolder_complete(u.w),
                          !.other = Nothing, !.pc = "done"]]
    /\ UNCHANGED <<S, poison, target, hints, adapter, phase, path, calls, found, obs, runs>>

\* fold_with returns the folder inside the wrapper; the engine completes it.
FoldWithReturn(i) ==
    /\ units[i].mode = "folder"
    /\ units[i].via = "fold_with"
    /\ AtEnd(units[i])
    /\ LET u == units[i]
       IN  units' = [units EXCEPT ![i] =
                [u EXCEPT !.mode = "result",
                          !.w = InnerFolder_complete(UpdateProducer_fold_with_return(u.w)),
                          !.other = Nothing, !.pc = "done"]]
    /\ UNCHANGED <<S, poison, target, hints, adapter, phase, path, calls, found, obs, runs>>

\* next(&mut self): self.base.next() yields an item and
\* (self.update_op)(&mut v) is called on it; a failure unwinds out of next.
SeqNext(i) ==
    /\ units[i].mode = "seq"
    /\ units[i].pc = "idle"
    /\ BaseIter_has_next(units[i].w.base)
    /\ LET u == units[i]
           item == Item(UpdateSeq_next_index(u.w))
           m == UpdateSeq_next_mutate(u.w, item)
           v == [u EXCEPT !.w = UpdateSeq_next_pull(u.w),
                          !.late = IF found THEN u.late + m.n ELSE u.late,
                          !.cur = m]
       IN  /\ calls' = [calls EXCEPT ![item.idx] = calls[item.idx] + m.n]
           /\ units' = [units EXCEPT ![i] =
                IF m.ok THEN [v EXCEPT !.pc = "mutated"] ELSE [v EXCEPT !.pc = "failed"]]
    /\ UNCHANGED <<S, poison, target, hints, adapter, phase, path, found, obs, runs>>

\* next returns Some(v); the engine's folder consumes v.
SeqYield(i) ==
    /\ units[i].mode = "seq"
    /\ units[i].pc = "mutated"
    /\ LET u == units[i]
       IN  /\ units' = [units EXCEPT ![i] =
                [u EXCEPT !.other = InnerFolder_consume(u.other, u.cur.val),
                          !.cur = NoItem,
                          !.pc = "check",
                          !.trigger = ~found /\ InnerFolder_consume_flag(found, u.cur.val)]]
           /\ found' = InnerFolder_consume_flag(found, u.cur.val)
    /\ UNCHANGED <<S, poison, target, hints, adapter, phase, path, calls, obs, runs>>

\* The engine asks its own folder full() after each item.
SeqFull(i) ==
    /\ units[i].mode = "seq"
    /\ units[i].pc = "check"
    /\ LET u == units[i]
       IN  units' = [units EXCEPT ![i] =
                [u EXCEPT !.pc = IF InnerFolder_full(u.other, found) THEN "stop" ELSE "idle"]]
    /\ UNCHANGED <<S, poison, target, hints, adapter, phase, path, calls, found, obs, runs>>

\* next returns None, or the engine stopped pulling: the engine completes its folder.
SeqEnd(i) ==
    /\ units[i].mode = "seq"
    /\ \/ units[i].pc = "stop"
       \/ units[i].pc = "idle" /\ ~BaseIter_has_next(units[i].w.base)
    /\ LET u == units[i]
       IN  units' = [units EXCEPT ![i] =
                [u EXCEPT !.mode = "result", !.w = InnerFolder_complete(u.other),
                          !.other = Nothing, !.pc = "done"]]
    /\ UNCHANGED <<S, poison, target, hints, adapter, phase, path, calls, found, obs, runs>>

\* The upstream's (the engine's) result: the units' results reduced in split order.
RECURSIVE Stage_reduce(_)
Stage_reduce(k) == IF k = 0 THEN <<>> ELSE Stage_reduce(k - 1) \o units[k].w

\* Every unit has completed: the upstream's operation returns, and with it
\* drive_unindexed, drive or with_producer.
Return ==
    /\ phase = "running"
    /\ units # <<>>
    /\ \A i \in 1..Len(units) : units[i].mode = "result"
    /\ phase' = "returned"
    /\ LET result == Stage_reduce(Len(units))
       IN  obs' = [q |-> path,
                   got |-> CASE path = "drive_unindexed" -> Update_drive_unindexed_return(result)
                             [] path = "drive" -> Update_drive_return(result)
                             [] OTHER -> Update_with_producer_return(result)]
    /\ UNCHANGED <<S, poison, target, hints, adapter, path, units, calls, found, runs>>

(***************************************************************************)
(* UpdateSeq on its own: two iterators over S (UpdateSeq is Clone) driven  *)
(* by next and next_back in any order, and the fast paths fold and collect *)
(* applied to a third and a fourth.  Each keeps what it yielded from the   *)
(* front and from the back and the trace of the positions the mutation     *)
(* function was invoked on.                                                *)
(***************************************************************************)
RunIds == {"a", "b"}

SeqItem(idx) == [idx |-> idx, val |-> S[idx], n |-> 0, ok |-> TRUE]

\* The positions an item's invocations add to a trace.
Invoked(m) == [k \in 1..m.n |-> m.idx]

\* The fold step g of the caller: it is not commutative, so the order shows.
g(acc, v) == acc * 3 + v

\* fold: self.base.fold(init, move |acc, mut v| { f(&mut v); g(acc, v) })
\* Slip of fold: g is given the item as it was before the mutation call.
UpdateSeq_fold_closure_stale(st, item) ==
    LET m == update_op_call(item)
        traced == [st EXCEPT !.trace = st.trace \o Invoked(m)]
    IN  IF m.ok THEN [traced EXCEPT !.acc = g(st.acc, item.val)]
        ELSE [traced EXCEPT !.failed = TRUE]

UpdateSeq_fold_closure(st, item) ==
    LET m == update_op_call(item)
        traced == [st EXCEPT !.trace = st.trace \o Invoked(m)]
    IN  IF m.ok THEN [traced EXCEPT !.acc = g(st.acc, m.val)]
        ELSE [traced EXCEPT !.failed = TRUE]

\* The inner iterator's fold: every remaining item, front to back.
RECURSIVE BaseIter_fold(_, _)
BaseIter_fold(it, st) ==
    IF st.failed \/ ~BaseIter_has_next(it)
    THEN st
    ELSE BaseIter_fold(BaseIter_next(it), UpdateSeq_fold_closure(st, SeqItem(it.lo)))

UpdateSeq_fold(self, init) ==
    BaseIter_fold(self.base, [acc |-> init, trace |-> <<>>, failed |-> FALSE])

\* collect: self.base.map(move |mut v| { f(&mut v); v }).collect()
UpdateSeq_collect_closure(st, item) ==
    LET m == update_op_call(item)
        traced == [st EXCEPT !.trace = st.trace \o Invoked(m)]
    IN  IF m.ok THEN [traced EXCEPT !.items = Append(st.items, m.val)]
        ELSE [traced EXCEPT !.failed = TRUE]

\* The inner iterator mapped and collected: every remaining item, front to back.
RECURSIVE BaseIter_map_collect(_, _)
BaseIter_map_collect(it, st) ==
    IF st.failed \/ ~BaseIter_has_next(it)
    THEN st
    ELSE BaseIter_map_collect(BaseIter_next(it), UpdateSeq_collect_closure(st, SeqItem(it.lo)))

UpdateSeq_collect(self) ==
    BaseIter_map_collect(self.base, [items |-> <<>>, trace |-> <<>>, failed |-> FALSE])

UpdateSeq_over(items) == [base |-> Range(1, Len(items)), update_op |-> OpRef]

Run(items) ==
    [it |-> UpdateSeq_over(items), front |-> <<>>, back |-> <<>>, trace |-> <<>>,
     failed |-> FALSE, ended |-> FALSE]

\* UpdateSeq { base, update_op } over the upstream's sequential iterator
SeqStart ==
    /\ phase = "init"
    /\ phase' = "seq"
    /\ \E init \in {0, 1} :
          runs' = [a |-> Run(S), b |-> Run(S), init |-> init,
                   folded |-> Nothing, collected |-> Nothing]
    /\ UNCHANGED <<S, poison, target, hints, adapter, path, units, calls, found, obs>>

\* next(&mut self)
UpdateSeq_next(r) ==
    IF BaseIter_has_next(r.it.base)
    THEN LET m == UpdateSeq_next_mutate(r.it, SeqItem(UpdateSeq_next_index(r.it)))
             pulled == [r EXCEPT !.it = UpdateSeq_next_pull(r.it),
                                 !.trace = r.trace \o Invoked(m)]
         IN  IF m.ok THEN [pulled EXCEPT !.front = Append(r.front, m.val)]
             ELSE [pulled EXCEPT !.failed = TRUE]
    ELSE [r EXCEPT !.ended = TRUE]

\* Slip of next_back: the item is taken with self.base.next(), from the front.
UpdateSeq_next_back_from_front(r) ==
    IF BaseIter_has_next(r.it.base)
    THEN LET m == UpdateSeq_next_mutate(r.it, SeqItem(UpdateSeq_next_index(r.it)))
             pulled == [r EXCEPT !.it = UpdateSeq_next_pull(r.it),
                                 !.trace = r.trace \o Invoked(m)]
         IN  IF m.ok THEN [pulled EXCEPT !.back = Append(r.back, m.val)]
             ELSE [pulled EXCEPT !.failed = TRUE]
    ELSE [r EXCEPT !.ended = TRUE]

\* next_back(&mut self)
UpdateSeq_next_back(r) ==
    IF BaseIter_has_next(r.it.base)
    THEN LET m == UpdateSeq_next_back_mutate(r.it, SeqItem(UpdateSeq_next_back_index(r.it)))
             pulled == [r EXCEPT !.it = UpdateSeq_next_back_pull(r.it),
                                 !.trace = r.trace \o Invoked(m)]
         IN  IF m.ok THEN [pulled EXCEPT !.back = Append(r.back, m.val)]
             ELSE [pulled EXCEPT !.failed = TRUE]
    ELSE [r EXCEPT !.ended = TRUE]

CallNext(id) ==
    /\ phase = "seq"
    /\ ~runs[id].failed
    /\ ~runs[id].ended
    /\ runs' = [runs EXCEPT ![id] = UpdateSeq_next(runs[id])]
    /\ UNCHANGED <<S, poison, target, hints, adapter, phase, path, units, calls, found, obs>>

CallNextBack(id) ==
    /\ phase = "seq"
    /\ ~runs[id].failed
    /\ ~runs[id].ended
    /\ runs' = [runs EXCEPT ![id] = UpdateSeq_next_back(runs[id])]
    /\ UNCHANGED <<S, poison, target, hints, adapter, phase, path, units, calls, found, obs>>

\* fold(self, init, g) on a fresh iterator over S
CallFold ==
    /\ phase = "seq"
    /\ runs.folded = Nothing
    /\ runs' = [runs EXCEPT !.folded = UpdateSeq_fold(UpdateSeq_over(S), runs.init)]
    /\ UNCHANGED <<S, poison, target, hints, adapter, phase, path, units, calls, found, obs>>

\* collect(self) on a fresh iterator over S
CallCollect ==
    /\ phase = "seq"
    /\ runs.collected = Nothing
    /\ runs' = [runs EXCEPT !.collected = UpdateSeq_collect(UpdateSeq_over(S))]
    /\ UNCHANGED <<S, poison, target, hints, adapter, phase, path, units, calls, found, obs>>

Next ==
    \/ New
    \/ QueryLen
    \/ Drive
    \/ DriveUnindexed
    \/ WithProducer
    \/ \E i \in 1..Len(units) : \E index \in 0..MaxLen : SplitConsumerAt(i, index)
    \/ \E i \in 1..Len(units) : \E index \in 0..MaxLen : SplitOffLeft(i, index)
    \/ \E i \in 1..Len(units) : \E index \in 0..MaxLen : SplitProducerAt(i, index)
    \/ \E i \in 1..Len(units) : IntoFolder(i)
    \/ \E i \in 1..Len(units) : EngineSkip(i)
    \/ \E i \in 1..Len(units) : FoldWith(i)
    \/ \E i \in 1..Len(units) : IntoIter(i)
    \/ \E i \in 1..Len(units) : Consume(i)
    \/ \E i \in 1..Len(units) : ConsumeForward(i)
    \/ \E i \in 1..Len(units) : FolderFull(i)
    \/ \E i \in 1..Len(units) : Complete(i)
    \/ \E i \in 1..Len(units) : FoldWithReturn(i)
    \/ \E i \in 1..Len(units) : SeqNext(i)
    \/ \E i \in 1..Len(units) : SeqYield(i)
    \/ \E i \in 1..Len(units) : SeqFull(i)
    \/ \E i \in 1..Len(units) : SeqEnd(i)
    \/ Return
    \/ SeqStart
    \/ \E id \in RunIds : CallNext(id)
    \/ \E id \in RunIds : CallNextBack(id)
    \/ CallFold
    \/ CallCollect

Spec == Init /\ [][Next]_vars

\* The steps of the thread that runs the i-th unit (the engine is free never
\* to split, so the splits are not among them).
UnitStep(i) ==
    /\ i \in 1..Len(units)
    /\ \/ IntoFolder(i) \/ EngineSkip(i) \/ FoldWith(i) \/ IntoIter(i)
       \/ Consume(i) \/ ConsumeForward(i) \/ FolderFull(i)
       \/ Complete(i) \/ FoldWithReturn(i)
       \/ SeqNext(i) \/ SeqYield(i) \/ SeqFull(i) \/ SeqEnd(i)

\* Fair scheduling of the units: a thread that can take a step eventually does.
FairSpec == Spec /\ \A i \in 1..MaxUnits : WF_vars(UnitStep(i))

(***************************************************************************)
(* Properties of the traversal.                                            *)
(***************************************************************************)
Running == phase = "running" /\ units # <<>>

\* Every leaf has completed (a leaf whose mutation call failed never does).
Done == Running /\ \A i \in 1..Len(units) : units[i].mode = "result"

\* What the unit has handed to the downstream folder so far.
Forwarded(u) ==
    CASE u.mode = "folder" -> u.w.base.items
      [] u.mode = "seq" -> u.other.items
      [] u.mode = "result" -> u.w
      [] OTHER -> <<>>

RECURSIVE ConcatResults(_)
ConcatResults(k) == IF k = 0 THEN <<>> ELSE ConcatResults(k - 1) \o Forwarded(units[k])

TotalCalls == SumTo(calls, Len(S))

\* C1 (mutation completeness): when a with_producer traversal has completed
\* on every leaf of the split tree, whether the leaf was consumed by into_iter
\* or by fold_with, and the downstream never declared itself full, the leaves'
\* results concatenated in split order are f applied to each element of S in
\* the original order.
C1_MutationCompleteness ==
    (Done /\ path = "with_producer" /\ ~found)
        => ConcatResults(Len(units)) = MapF(S)

C1_Witness ==
    /\ Done /\ path = "with_producer" /\ ~found
    /\ Len(S) = 3 /\ Len(units) = 3
    /\ \E i \in 1..Len(units) : units[i].via = "fold_with" /\ Len(units[i].w) >= 1
    /\ \E i \in 1..Len(units) : units[i].via = "into_iter" /\ Len(units[i].w) >= 1

C3_NoMutationOnceFull == [][found => calls' = calls]_vars

\* C3 as amended: the unit whose item made the downstream full passes no
\* further item to the mutation function, on the push path, the fold_with
\* path and the pull path alike; every other unit passes at most one item
\* more, the one its driver had gone on to after last finding the folder
\* not full.
C3_ShortCircuit ==
    \A i \in 1..Len(units) :
        /\ units[i].late <= 1
        /\ units[i].trigger => units[i].late = 0

C3_Witness ==
    /\ Len(units) >= 2
    /\ \E i, j \in 1..Len(units) :
          /\ units[i].trigger /\ units[i].mode = "result"
          /\ Len(units[i].w) < units[i].hi0 - units[i].lo0 + 1
          /\ units[j].late = 1

\* C4 (split transparency): the units of a with_producer traversal tile S in
\* split order, an UpdateProducer covers exactly the part of S it was split
\* off for (the left half S[0..k), the right half S[k..n)), and the result of
\* a unit that was not cut short is the same part of the mutated whole.
C4_SplitTransparency ==
    (Running /\ path = "with_producer") =>
        /\ units[1].lo0 = 1
        /\ units[Len(units)].hi0 = Len(S)
        /\ \A i \in 1..(Len(units) - 1) : units[i + 1].lo0 = units[i].hi0 + 1
        /\ \A i \in 1..Len(units) :
              /\ units[i].mode = "producer" =>
                    /\ units[i].w.base.lo = units[i].lo0
                    /\ units[i].w.base.hi = units[i].hi0
              /\ (units[i].mode = "result" /\ ~found) =>
                    units[i].w = SubSeq(MapF(S), units[i].lo0, units[i].hi0)

C4_Witness ==
    /\ Done /\ path = "with_producer" /\ ~found
    /\ Len(S) = 3 /\ Len(units) = 2
    /\ units[1].w = SubSeq(MapF(S), 1, 2)
    /\ units[2].w = SubSeq(MapF(S), 3, 3)
    /\ S[1] # S[3]

(***************************************************************************)
(* Properties of UpdateSeq on its own.                                     *)
(***************************************************************************)
\* The iterator was driven by next alone until next returned None.
ForwardExhausted(r) == r.ended /\ r.it.base.hi = Len(S)

\* The iterator was driven by next_back alone until next_back returned None.
BackwardExhausted(r) == r.ended /\ r.it.base.lo = 1

\* The iterator was driven by next alone until None or until the mutation failed.
ForwardFinished(r) == r.it.base.hi = Len(S) /\ (r.ended \/ r.failed)

RECURSIVE HandFold(_, _)
HandFold(acc, s) == IF s = <<>> THEN acc ELSE HandFold(g(acc, Head(s)), Tail(s))

\* C5 (reverse consistency): what next_back yields until exhaustion is the
\* exact reverse of what next yields until exhaustion on the same S with the
\* same mutation function.
C5_ReverseConsistency ==
    (phase = "seq" /\ ForwardExhausted(runs.a) /\ BackwardExhausted(runs.b))
        => runs.b.back = Reverse(runs.a.front)

C5_Witness ==
    /\ phase = "seq" /\ ForwardExhausted(runs.a) /\ BackwardExhausted(runs.b)
    /\ Len(S) = 3 /\ S[1] # S[3]
    /\ Len(runs.b.back) = 3

\* C6 (fast-path equivalence): fold returns the accumulator that repeated
\* next with g applied by hand gives, collect returns the items repeated next
\* yields, in the same order, and both invoke the mutation function on the
\* same positions in the same order, as often, as repeated next does (also
\* when the mutation function fails on the way).
C6_FastPathEquivalence ==
    (phase = "seq" /\ ForwardFinished(runs.a)) =>
        /\ runs.folded # Nothing =>
              /\ runs.folded.trace = runs.a.trace
              /\ runs.folded.failed = runs.a.failed
              /\ ~runs.a.failed => runs.folded.acc = HandFold(runs.init, runs.a.front)
        /\ runs.collected # Nothing =>
              /\ runs.collected.trace = runs.a.trace
              /\ runs.collected.failed = runs.a.failed
              /\ ~runs.a.failed => runs.collected.items = runs.a.front

C6_Witness ==
    /\ phase = "seq" /\ ForwardExhausted(runs.a)
    /\ Len(S) = 3 /\ S[1] # S[3]
    /\ runs.folded # Nothing /\ runs.collected # Nothing
    /\ runs.folded.acc = HandFold(runs.init, MapF(S))
    /\ runs.collected.items = MapF(S)

(***************************************************************************)
(* Forwarded queries, failure, laziness.                                   *)
(***************************************************************************)
\* C7 (fullness forwarded unchanged): in every state every UpdateConsumer and
\* every UpdateFolder answers full() as the consumer or folder it wraps does,
\* true exactly when the downstream is full; the wrapper has no field besides
\* base and update_op, and a folder whose driver stopped early stopped
\* because the downstream was full.
C7_FullnessForwarded ==
    \A i \in 1..Len(units) :
        /\ units[i].mode = "consumer" =>
              /\ UpdateConsumer_full(units[i].w, found)
                    = InnerConsumer_full(units[i].w.base, found)
              /\ UpdateConsumer_full(units[i].w, found) = found
              /\ DOMAIN units[i].w = {"base", "update_op"}
        /\ units[i].mode = "folder" =>
              /\ UpdateFolder_full(units[i].w, found)
                    = InnerFolder_full(units[i].w.base, found)
              /\ UpdateFolder_full(units[i].w, found) = found
              /\ DOMAIN units[i].w = {"base", "update_op"}
              /\ units[i].pc = "stop" => found

C7_Witness ==
    /\ found
    /\ \E i, j \in 1..Len(units) :
          /\ units[i].mode = "consumer"
          /\ units[j].mode = "folder" /\ units[j].pc = "stop"
          /\ units[j].other.lo <= units[j].other.hi

RECURSIVE CallsIn(_, _)
CallsIn(lo, hi) == IF hi < lo THEN 0 ELSE calls[hi] + CallsIn(lo, hi - 1)

\* C8 (cardinality forwarded unchanged): opt_len and len of the adapter are
\* the upstream's length, min_len and max_len of every UpdateProducer, also
\* of both halves of a split, are the upstream producer's, and size_hint of
\* an UpdateSeq is the number of items its inner iterator still holds (the
\* items it was given less those pulled from either end), whatever the
\* mutation function did.
C8_CardinalityForwarded ==
    /\ phase = "new" =>
          /\ Update_opt_len(adapter) = Len(S)
          /\ Update_len(adapter) = Len(S)
          /\ obs # Nothing => obs.got = Len(S)
    /\ \A i \in 1..Len(units) :
          /\ units[i].mode = "producer" =>
                /\ UpdateProducer_min_len(units[i].w) = hints.min
                /\ UpdateProducer_max_len(units[i].w) = hints.max
          /\ units[i].mode = "seq" =>
                LET left == (units[i].hi0 - units[i].lo0 + 1)
                               - CallsIn(units[i].lo0, units[i].hi0)
                IN  UpdateSeq_size_hint(units[i].w) = <<left, left>>
    /\ phase = "seq" =>
          \A id \in RunIds :
              LET left == Len(S) - Len(runs[id].trace)
              IN  UpdateSeq_size_hint(runs[id].it) = <<left, left>>

C8_Witness ==
    /\ phase = "seq"
    /\ Len(runs.a.front) = 1 /\ Len(runs.a.back) = 1
    /\ UpdateSeq_size_hint(runs.a.it) = <<1, 1>>

\* C9 (failure is propagated, nothing is rolled back): once the mutation
\* function has failed on item j of a unit, the unit's thread is unwinding:
\* what the unit had forwarded downstream is exactly the mutated items
\* before j and stays so, j itself is never forwarded or yielded, the
\* function was invoked once on j and on no later item of the unit, and the
\* unit never completes its folder.
C9_FailurePropagates ==
    \A i \in 1..Len(units) :
        \A j \in units[i].lo0..units[i].hi0 :
            (calls[j] >= 1 /\ S[j] = poison) =>
                /\ calls[j] = 1
                /\ units[i].pc = "failed"
                /\ units[i].mode # "result"
                /\ units[i].cur.idx = j
                /\ Forwarded(units[i]) = MapF(SubSeq(S, units[i].lo0, j - 1))
                /\ \A k \in (j + 1)..units[i].hi0 : calls[k] = 0

C9_Witness ==
    \E i \in 1..Len(units) :
        /\ units[i].pc = "failed" /\ units[i].mode = "folder"
        /\ units[i].cur.idx = units[i].lo0 + 1
        /\ units[i].hi0 = units[i].cur.idx + 1
        /\ Len(Forwarded(units[i])) = 1

\* C10 (laziness): from construction until the first drive, drive_unindexed
\* or with_producer, also after opt_len and len were asked, the mutation
\* function has not been invoked, the upstream's items are as they were,
\* nothing was split off and nothing was pushed downstream.
C10_Laziness ==
    phase = "new" =>
        /\ \A k \in 1..Len(S) : calls[k] = 0
        /\ adapter.base.items = S
        /\ adapter.update_op = OpRef
        /\ units = <<>>
        /\ path = "none"
        /\ ~found

C10_Witness ==
    /\ phase = "new" /\ Len(S) = 3
    /\ obs # Nothing /\ obs.q = "len" /\ obs.got = 3

(***************************************************************************)
(* Properties of one unit's calls.                                         *)
(***************************************************************************)
\* The number of items the unit's driver has taken from the upstream.
Taken(u) ==
    CASE u.mode = "folder" -> u.other.lo - u.lo0
      [] u.mode = "seq" -> u.w.base.lo - u.lo0
      [] OTHER -> 0

\* The mutated items of the first k positions of the unit's part of S.
MutatedPrefix(u, k) == MapF(SubSeq(S, u.lo0, u.lo0 + k - 1))

\* C11 (consume is synchronous mutate-then-forward): after the k-th consume
\* call on an UpdateFolder has returned, the inner folder has received
\* exactly the k mutated items, in the order of the calls; while a consume
\* call is between its mutation and its forwarding the item in hand is
\* already mutated, the inner folder holds the k-1 items before it, and no
\* later item of the unit has been passed to the mutation function; and
\* complete (or the return of fold_with) hands the inner folder no item, so a
\* unit's result holds one item per mutation call.
C11_SynchronousConsume ==
    \A i \in 1..Len(units) :
        LET u == units[i]
            k == Taken(u)
        IN  /\ (u.mode = "folder" /\ u.pc \in {"idle", "check", "stop"}) =>
                  /\ u.w.base.items = MutatedPrefix(u, k)
                  /\ u.cur = NoItem
            /\ (u.mode = "folder" /\ u.pc = "mutated") =>
                  /\ u.w.base.items = MutatedPrefix(u, k - 1)
                  /\ u.cur.idx = u.lo0 + k - 1
                  /\ u.cur.val = update_op(S[u.cur.idx])
                  /\ calls[u.cur.idx] = 1
            /\ u.mode = "folder" =>
                  \A j \in (u.lo0 + k)..u.hi0 : calls[j] = 0
            /\ (u.mode = "result" /\ u.via \in {"push", "fold_with"}) =>
                  u.w = MutatedPrefix(u, CallsIn(u.lo0, u.hi0))

C11_Witness ==
    \E i \in 1..Len(units) :
        /\ units[i].mode = "folder" /\ units[i].via = "push"
        /\ units[i].pc = "mutated"
        /\ Len(units[i].w.base.items) = 2
        /\ units[i].w.base.items[1] # units[i].w.base.items[2]
        /\ units[i].cur.idx = 3

\* What a unit that runs alone over S[k..hi] hands to the downstream folder:
\* the mutated items in order, up to the item the mutation function fails on
\* (excluded) or the item that makes the downstream full (included).
RECURSIVE PathOutput(_, _)
PathOutput(k, hi) ==
    IF k > hi \/ update_op_fails(S[k]) THEN <<>>
    ELSE IF target # 0 /\ update_op(S[k]) = target THEN <<update_op(S[k])>>
    ELSE <<update_op(S[k])>> \o PathOutput(k + 1, hi)

IsPrefix(s, t) == Len(s) <= Len(t) /\ s = SubSeq(t, 1, Len(s))

\* The unit is at its end: it completed, or the mutation function failed.
Finished(u) == u.mode = "result" \/ u.pc = "failed"

\* C12 (the three traversal paths agree): when the whole of S is traversed
\* by one unit, the downstream folder is handed the same mutated sequence
\* and ends in the same state whether the items were pushed through an
\* UpdateFolder (drive, drive_unindexed), folded by fold_with or pulled by
\* into_iter and consumed one by one: at every moment what it was handed is
\* a prefix of one sequence that depends on S, the mutation function and the
\* downstream only, and at the end it is that sequence; the folder fold_with
\* returns is the caller's own folder, without the wrapper.
C12_PathsAgree ==
    (Running /\ Len(units) = 1) =>
        LET u == units[1]
        IN  /\ IsPrefix(Forwarded(u), PathOutput(1, Len(S)))
            /\ Finished(u) => Forwarded(u) = PathOutput(1, Len(S))
            /\ (u.mode = "folder" /\ u.via = "fold_with") =>
                  /\ UpdateProducer_fold_with_return(u.w) = [items |-> Forwarded(u)]
                  /\ InnerFolder_complete(UpdateProducer_fold_with_return(u.w)) = Forwarded(u)

C12_Witness ==
    /\ Done /\ Len(units) = 1 /\ units[1].via = "into_iter"
    /\ Len(S) = 3 /\ found
    /\ units[1].w = PathOutput(1, 3) /\ Len(units[1].w) = 2

\* C13 (double-ended traversal partitions the sequence): however next and
\* next_back are interleaved on one UpdateSeq over S, what next has yielded
\* is a prefix of the mutated S in forward order, what next_back has yielded
\* is a suffix of it in backward order, the two never overlap, the mutation
\* function was invoked once on each position taken and on no other, and
\* when a call has reported exhaustion every one of the len(S) elements was
\* yielded and that call invoked the mutation function on nothing.
C13_DoubleEndedPartition ==
    phase = "seq" =>
        \A id \in RunIds :
            LET r == runs[id]
                n == Len(S)
                nf == Len(r.front)
                nb == Len(r.back)
            IN  /\ r.front = MapF(SubSeq(S, 1, nf))
                /\ r.back = Reverse(MapF(SubSeq(S, n - nb + 1, n)))
                /\ nf + nb <= n
                /\ \A a, b \in 1..Len(r.trace) : a # b => r.trace[a] # r.trace[b]
                /\ {r.trace[a] : a \in 1..Len(r.trace)} =
                      (1..(r.it.base.lo - 1)) \cup ((r.it.base.hi + 1)..n)
                /\ Len(r.trace) = nf + nb + (IF r.failed THEN 1 ELSE 0)
                /\ r.ended => (~r.failed /\ nf + nb = n /\ Len(r.trace) = n)

C13_Witness ==
    /\ phase = "seq" /\ Len(S) = 3 /\ S[1] # S[2]
    /\ runs.a.ended
    /\ runs.a.trace = <<1, 3, 2>>
    /\ Len(runs.a.front) = 2 /\ Len(runs.a.back) = 1

\* The positions of S the unit may still take an item from.
Part(u) ==
    CASE u.mode = "consumer" -> u.other.lo..u.other.hi
      [] u.mode = "producer" -> u.w.base.lo..u.w.base.hi
      [] u.mode = "folder" -> u.other.lo..u.other.hi
      [] u.mode = "seq" -> u.w.base.lo..u.w.base.hi
      [] OTHER -> {}

\* C14 as claimed (units independent): the output of every unit is the same
\* in every interleaving, so it is the output of the interleaving in which
\* the unit runs before all others.
C14_OutputScheduleFree ==
    \A i \in 1..Len(units) :
        Finished(units[i]) =>
            Forwarded(units[i]) = PathOutput(units[i].lo0, units[i].hi0)

\* C14 as amended: after any number of splits the units' parts of S are
\* pairwise disjoint, a unit takes items from its own part only and no
\* element is passed to the mutation function by two units; a step of one
\* unit changes no other unit; and a unit's output is at every moment a
\* prefix of the output it has when it runs alone, and is that output at the
\* unit's end unless another unit's item has made the downstream full.
C14_UnitsIndependent ==
    /\ [](\A i \in 1..Len(units) :
            LET u == units[i]
            IN  /\ Part(u) \subseteq u.lo0..u.hi0
                /\ u.cur # NoItem => u.cur.idx \in u.lo0..u.hi0
                /\ \A j \in (i + 1)..Len(units) :
                      /\ u.hi0 < units[j].lo0
                      /\ Part(u) \cap Part(units[j]) = {}
                /\ \A k \in u.lo0..u.hi0 : calls[k] <= 1
                /\ IsPrefix(Forwarded(u), PathOutput(u.lo0, u.hi0))
                /\ (Finished(u) /\ (~found \/ u.trigger)) =>
                      Forwarded(u) = PathOutput(u.lo0, u.hi0))
    /\ [][Len(units') = Len(units) =>
            \A i, j \in 1..Len(units) :
                (units'[i] # units[i] /\ units'[j] # units[j]) => i = j]_vars

C14_Witness ==
    \E i, j \in 1..Len(units) :
        /\ i # j
        /\ units[i].trigger
        /\ units[j].mode = "result"
        /\ Len(units[j].w) >= 1
        /\ Len(units[j].w) < Len(PathOutput(units[j].lo0, units[j].hi0))

\* C15 (reducer and result pass through): on the push path the consumer
\* handed to the upstream wraps the caller's consumer; after a split_at at
\* an index the two UpdateConsumers wrap the halves the inner consumer's
\* split_at returns for that same index (the half that goes with each part
\* of the upstream's items) and the reducer returned is the inner
\* consumer's; after split_off_left the reducer is the one to_reducer of the
\* inner consumer returns and both consumers wrap the inner consumer; and
\* the result of UpdateFolder::complete is the inner folder's complete();
\* and what drive, drive_unindexed and with_producer return is the
\* upstream's result, the units' results in split order.
C15_PassThrough ==
    /\ [](path \in {"drive", "drive_unindexed"} =>
            \A i \in 1..Len(units) :
                LET u == units[i]
                    inner == InnerConsumer(Len(S))
                IN  /\ Len(units) = 1 => u.red = "none"
                    /\ Len(units) > 1 => u.red = InnerConsumer_to_reducer(inner)
                    /\ (u.mode = "consumer" /\ path = "drive") =>
                          /\ u.w.base = Range(u.other.lo, u.other.hi)
                          /\ u.w.base.lo >= inner.lo /\ u.w.base.hi <= inner.hi
                    /\ (u.mode = "consumer" /\ path = "drive_unindexed") =>
                          u.w.base = InnerConsumer_split_off_left(inner))
    /\ [][\A i \in 1..Len(units) :
            (/\ Len(units') = Len(units)
             /\ units[i].mode = "folder" /\ units[i].via = "push"
             /\ units'[i].mode = "result")
                => units'[i].w = InnerFolder_complete(units[i].w.base)]_vars
    /\ [](phase = "returned" => obs.got = ConcatResults(Len(units)))

C15_Witness ==
    /\ phase = "returned" /\ path = "drive" /\ Len(units) = 3
    /\ \A i \in 1..3 : units[i].red = "reducer" /\ Len(units[i].w) = 1
    /\ obs.got = MapF(S) /\ S[1] # S[2]

\* The mutation function returns on every element of S.
NoFailure == \A k \in 1..Len(S) : ~update_op_fails(S[k])

\* C16 (termination): under fair scheduling of the units a traversal of a
\* sequence on which the mutation function returns reaches the state where
\* every unit has completed; a unit that is not at its end can always take
\* its next step, whatever the other units are doing; and a consume or next
\* call has made exactly one mutation call when it hands its item on, and
\* has handed on one item per call when it returns.
C16_Termination ==
    /\ (Running /\ NoFailure) ~> Done
    /\ [](\A i \in 1..Len(units) :
            LET u == units[i]
            IN  /\ (Running /\ ~Finished(u)) => ENABLED UnitStep(i)
                /\ u.pc = "mutated" => (u.cur.n = 1 /\ calls[u.cur.idx] = 1)
                /\ (u.mode \in {"folder", "seq"} /\ u.pc \in {"idle", "check", "stop"}) =>
                      /\ Len(Forwarded(u)) = Taken(u)
                      /\ CallsIn(u.lo0, u.hi0) = Taken(u))

C16_Witness ==
    /\ Done /\ NoFailure /\ ~found
    /\ Len(S) = 3 /\ Len(units) = 3
    /\ \A i \in 1..3 : Len(units[i].w) = 1
    /\ path = "drive_unindexed"

\* The unit holds a wrapper of the Update stage (it has not completed).
Live(u) == u.mode \in {"consumer", "producer", "folder", "seq"}

\* C17 (one mutation function per traversal): in every state of a
\* traversal every live UpdateConsumer, UpdateProducer, UpdateFolder and
\* UpdateSeq, whatever splits, into_folder, into_iter or fold_with it came
\* from, refers to the mutation function the adapter was constructed with.
C17_OneMutationFunction ==
    Running =>
        /\ adapter.update_op = OpRef
        /\ \A i \in 1..Len(units) :
              Live(units[i]) => units[i].w.update_op = adapter.update_op

C17_Witness ==
    /\ path = "with_producer" /\ Len(units) = 3
    /\ units[1].mode = "folder" /\ units[1].w.update_op = OpRef
    /\ units[2].mode = "seq" /\ units[2].w.update_op = OpRef
    /\ units[3].mode = "producer" /\ units[3].w.update_op = OpRef
    /\ RangeLen(units[3].w.base) = 1

\* The unit has an item in hand: mutated and not yet handed on, or failed on.
InHand(u) == IF u.pc \in {"mutated", "failed"} THEN 1 ELSE 0

\* C18 (cardinality at every intermediate state): for every unit that is
\* consuming (UpdateFolder or UpdateSeq) the number of items handed
\* downstream is at most the number of mutation calls, which is at most the
\* number of items taken from the upstream; the calls exceed the items
\* handed on by one exactly while an item is in hand or after the mutation
\* failed on it; what was handed on is the mutated items taken, none left
\* out, repeated or made up; a completed unit handed on one item per call.
\* The same holds of next and next_back of an UpdateSeq on its own.
C18_CardinalityPreserved ==
    /\ \A i \in 1..Len(units) :
          LET u == units[i]
              taken == Taken(u)
              invoked == CallsIn(u.lo0, u.hi0)
              handed == Len(Forwarded(u))
          IN  /\ u.mode \in {"folder", "seq"} =>
                    /\ handed <= invoked /\ invoked <= taken
                    /\ invoked - handed = InHand(u)
                    /\ taken - invoked \in {0, 1}
                    /\ taken <= u.hi0 - u.lo0 + 1
                    /\ Forwarded(u) = MutatedPrefix(u, handed)
              /\ u.mode = "result" =>
                    /\ handed = invoked
                    /\ Forwarded(u) = MutatedPrefix(u, handed)
    /\ phase = "seq" =>
          \A id \in RunIds :
              LET r == runs[id]
                  taken == Len(S) - RangeLen(r.it.base)
                  invoked == Len(r.trace)
                  handed == Len(r.front) + Len(r.back)
              IN  /\ handed <= invoked /\ invoked <= taken
                  /\ invoked - handed = (IF r.failed THEN 1 ELSE 0)
                  /\ taken - invoked \in {0, 1}

C18_Witness ==
    \E i \in 1..Len(units) :
        /\ units[i].mode = "seq" /\ units[i].pc = "failed"
        /\ Taken(units[i]) = 2
        /\ CallsIn(units[i].lo0, units[i].hi0) = 2
        /\ Len(Forwarded(units[i])) = 1
        /\ units[i].hi0 - units[i].lo0 = 2

\* C19 (consume is unconditional): an UpdateFolder whose driver has an item
\* for it can be given the item whether or not the inner folder is full;
\* the item given is passed to the mutation function, once, and then to the
\* inner folder's consume, also when the inner folder was full before the
\* call (the unit's late calls); only the driver's own full() check stops a
\* unit.
C19_ConsumeUnconditional ==
    \A i \in 1..Len(units) :
        LET u == units[i]
        IN  u.mode = "folder" =>
              /\ (u.pc = "idle" /\ RangeLen(u.other) > 0) => ENABLED Consume(i)
              /\ u.pc = "mutated" =>
                    /\ u.cur.n = 1
                    /\ u.cur.val = update_op(S[u.cur.idx])
                    /\ ENABLED ConsumeForward(i)
              /\ u.late >= 1 =>
                    /\ found
                    /\ calls[u.other.lo - 1] = 1
                    /\ u.pc \in {"check", "stop"} =>
                          /\ Len(u.w.base.items) = Taken(u)
                          /\ u.w.base.items[Taken(u)] = update_op(S[u.other.lo - 1])
              /\ u.pc = "stop" => found

C19_Witness ==
    \E i \in 1..Len(units) :
        /\ units[i].mode = "folder" /\ units[i].via = "push"
        /\ units[i].late = 1 /\ ~units[i].trigger
        /\ units[i].pc = "check"
        /\ Len(units[i].w.base.items) = 2

====
